---- MODULE Spec2Model ----
(***************************************************************************)
(* Model of the log monitor (src/log_monitor.py): the LogMonitor object,   *)
(* its methods parse_logs, get_ec2_metrics, check_scaling_conditions and   *)
(* trigger_auto_scaling, and the monitoring cycle main().                  *)
(*                                                                         *)
(* A log line is a sequence of one-character strings, a blob a sequence of *)
(* such characters with "\n" separators.  The three regular expressions of *)
(* parse_logs are evaluated on these characters.  Python floats are        *)
(* modelled as exact rationals <<numerator, denominator>> in lowest terms: *)
(* rounding is not modelled.                                               *)
(*                                                                         *)
(* Spec     one LogMonitor whose parse_logs is called repeatedly, a line   *)
(*          at a time;                                                     *)
(* SpecEval check_scaling_conditions and trigger_auto_scaling applied to   *)
(*          drawn snapshots, samples and groups;                           *)
(* SpecMain one monitoring cycle of main() against failing collaborators.  *)
(***************************************************************************)
EXTENDS Integers, Sequences, FiniteSets, TLC

VARIABLES
    metrics,           \* self.metrics
    pc,                \* control position of the caller
    log_contents,      \* parse_logs' argument / main's local
    bi,                \* number of blobs the outer for loop has taken
    lines,             \* lines of the current blob still to be processed
    response_times,    \* parse_logs' local list
    ncalls,            \* number of parse_logs calls completed on this object
    instance_ids,      \* main's INSTANCE_IDS
    ec2_metrics,       \* the dict given to check_scaling_conditions
    scaling_decision,  \* what check_scaling_conditions returned
    reasons,           \* its local list of reasons
    asg,               \* the Auto Scaling group as the fleet service holds it
    fleet,             \* what trigger_auto_scaling read from the service
    new_capacity,      \* trigger_auto_scaling's local
    writes,            \* the set_desired_capacity calls issued, in order
    escaped,           \* an exception left the monitoring cycle
    bucket,            \* the S3 bucket as the blob source holds it
    cloudwatch,        \* how CloudWatch answered for each instance
    autoscaling        \* how the Auto Scaling service answered

vars == <<metrics, pc, log_contents, bi, lines, response_times, ncalls,
          instance_ids, ec2_metrics, scaling_decision, reasons, asg, fleet,
          new_capacity, writes, escaped, bucket, cloudwatch, autoscaling>>

\* the collaborators, which parse_logs and check_scaling_conditions never touch
services == <<bucket, cloudwatch, autoscaling>>

None == "None"

\* a failed re.search; group(1) of a match is never empty
NoMatch == <<>>

(***************************************************************************)
(* Characters                                                              *)
(***************************************************************************)
Digits == <<"0", "1", "2", "3", "4", "5", "6", "7", "8", "9">>

DigitChars == {Digits[i] : i \in 1..Len(Digits)}

DigitVal(c) == (CHOOSE i \in 1..Len(Digits) : Digits[i] = c) - 1

LowerCase == <<"a", "b", "c", "d", "e", "f", "g", "h", "i", "j", "k", "l", "m",
               "n", "o", "p", "q", "r", "s", "t", "u", "v", "w", "x", "y", "z">>

UpperCase == <<"A", "B", "C", "D", "E", "F", "G", "H", "I", "J", "K", "L", "M",
               "N", "O", "P", "Q", "R", "S", "T", "U", "V", "W", "X", "Y", "Z">>

\* re.IGNORECASE: characters are compared after case folding
FoldCase(c) ==
    IF \E i \in 1..Len(UpperCase) : UpperCase[i] = c
    THEN LowerCase[CHOOSE i \in 1..Len(UpperCase) : UpperCase[i] = c]
    ELSE c

\* the characters str.strip() removes and \s matches
Whitespace == {" ", "\t", "\r", "\n"}

\* the character class [:\s]
SepChars == Whitespace \cup {":"}

(***************************************************************************)
(* Rationals standing for Python floats                                    *)
(***************************************************************************)
RECURSIVE Gcd(_, _)
Gcd(a, b) == IF b = 0 THEN a ELSE Gcd(b, a % b)

Rat(n, d) == LET g == Gcd(n, d) IN <<n \div g, d \div g>>

RatZero == <<0, 1>>

RatAdd(a, b) == Rat(a[1] * b[2] + b[1] * a[2], a[2] * b[2])

RatDivInt(a, k) == Rat(a[1], a[2] * k)

\* a > k for a rational a and an integer k
RatGtInt(a, k) == a[1] > k * a[2]

(***************************************************************************)
(* str.split and str.strip                                                 *)
(***************************************************************************)
RECURSIVE Split(_, _)
Split(s, sep) ==
    IF \A i \in 1..Len(s) : s[i] # sep
    THEN <<s>>
    ELSE LET k == CHOOSE i \in 1..Len(s) :
                      s[i] = sep /\ \A j \in 1..(i - 1) : s[j] # sep
         IN  <<SubSeq(s, 1, k - 1)>> \o Split(SubSeq(s, k + 1, Len(s)), sep)

RECURSIVE LStrip(_)
LStrip(s) == IF s # <<>> /\ Head(s) \in Whitespace THEN LStrip(Tail(s)) ELSE s

RECURSIVE RStrip(_)
RStrip(s) ==
    IF s # <<>> /\ s[Len(s)] \in Whitespace
    THEN RStrip(SubSeq(s, 1, Len(s) - 1))
    ELSE s

Strip(s) == RStrip(LStrip(s))

(***************************************************************************)
(* The regular expressions of parse_logs                                   *)
(***************************************************************************)
\* the literal lit stands in s at position i
MatchesAt(s, i, lit) ==
    /\ i >= 1
    /\ i + Len(lit) - 1 <= Len(s)
    /\ \A k \in 1..Len(lit) : s[i + k - 1] = lit[k]

MatchesAtIgnoreCase(s, i, lit) ==
    /\ i >= 1
    /\ i + Len(lit) - 1 <= Len(s)
    /\ \A k \in 1..Len(lit) : FoldCase(s[i + k - 1]) = FoldCase(lit[k])

\* the position after the longest run of characters of cls that starts at i
RECURSIVE RunEnd(_, _, _)
RunEnd(s, i, cls) ==
    IF i <= Len(s) /\ s[i] \in cls THEN RunEnd(s, i + 1, cls) ELSE i

\* error_pattern = r'(ERROR|FATAL|Exception|Failed)'
ErrorMarkers ==
    { <<"E", "R", "R", "O", "R">>,
      <<"F", "A", "T", "A", "L">>,
      <<"E", "x", "c", "e", "p", "t", "i", "o", "n">>,
      <<"F", "a", "i", "l", "e", "d">> }

\* re.search(error_pattern, line, re.IGNORECASE) is not None
SearchError(line) ==
    \E i \in 1..Len(line) :
        \E m \in ErrorMarkers : MatchesAtIgnoreCase(line, i, m)

ResponseTimeLit ==
    <<"r", "e", "s", "p", "o", "n", "s", "e", "_", "t", "i", "m", "e">>

MsLit == <<"m", "s">>

StatusLit == <<"s", "t", "a", "t", "u", "s">>

\* response_time_pattern = r'response_time[:\s]+(\d+\.?\d*)ms' tried at
\* position i: group(1), or NoMatch
ResponseTimeAt(s, i) ==
    LET a == i + Len(ResponseTimeLit)
        b == RunEnd(s, a, SepChars)
        c == RunEnd(s, b, DigitChars)
        d == IF c <= Len(s) /\ s[c] = "." THEN RunEnd(s, c + 1, DigitChars) ELSE c
    IN  IF ~MatchesAt(s, i, ResponseTimeLit) \/ b = a \/ c = b THEN NoMatch
        ELSE IF MatchesAt(s, d, MsLit) THEN SubSeq(s, b, d - 1)
        ELSE IF MatchesAt(s, c, MsLit) THEN SubSeq(s, b, c - 1)
        ELSE NoMatch

\* re.search(response_time_pattern, line): group(1) of the leftmost match
SearchResponseTime(line) ==
    IF \A i \in 1..Len(line) : ResponseTimeAt(line, i) = NoMatch
    THEN NoMatch
    ELSE ResponseTimeAt(line,
             CHOOSE i \in 1..Len(line) :
                 /\ ResponseTimeAt(line, i) # NoMatch
                 /\ \A j \in 1..(i - 1) : ResponseTimeAt(line, j) = NoMatch)

StatusDigits == 3

\* status_code_pattern = r'status[:\s]+(\d{3})' tried at position i
StatusAt(s, i) ==
    LET a == i + Len(StatusLit)
        b == RunEnd(s, a, SepChars)
    IN  IF ~MatchesAt(s, i, StatusLit) \/ b = a THEN NoMatch
        ELSE IF /\ b + StatusDigits - 1 <= Len(s)
                /\ \A k \in 0..(StatusDigits - 1) : s[b + k] \in DigitChars
             THEN SubSeq(s, b, b + StatusDigits - 1)
        ELSE NoMatch

\* re.search(status_code_pattern, line): group(1) of the leftmost match
SearchStatus(line) ==
    IF \A i \in 1..Len(line) : StatusAt(line, i) = NoMatch
    THEN NoMatch
    ELSE StatusAt(line,
             CHOOSE i \in 1..Len(line) :
                 /\ StatusAt(line, i) # NoMatch
                 /\ \A j \in 1..(i - 1) : StatusAt(line, j) = NoMatch)

\* int(text) for a run of digits
RECURSIVE ParseInt(_)
ParseInt(ds) ==
    IF ds = <<>> THEN 0
    ELSE 10 * ParseInt(SubSeq(ds, 1, Len(ds) - 1)) + DigitVal(ds[Len(ds)])

RECURSIVE Pow10(_)
Pow10(n) == IF n = 0 THEN 1 ELSE 10 * Pow10(n - 1)

\* float(text) for text matching \d+\.?\d*
ParseFloat(text) ==
    LET p == RunEnd(text, 1, DigitChars)
        whole == SubSeq(text, 1, p - 1)
        frac == SubSeq(text, p + 1, Len(text))
    IN  Rat(ParseInt(whole) * Pow10(Len(frac)) + ParseInt(frac), Pow10(Len(frac)))

(***************************************************************************)
(* Sample log lines and blobs: the inputs the model draws from             *)
(***************************************************************************)
\* 'status: 200 response_time: 100ms'
LineOk ==
    <<"s", "t", "a", "t", "u", "s", ":", " ", "2", "0", "0", " ", "r", "e",
      "s", "p", "o", "n", "s", "e", "_", "t", "i", "m", "e", ":", " ", "1",
      "0", "0", "m", "s">>

\* 'ERROR status: 503 response_time: 2000ms'
LineError503 ==
    <<"E", "R", "R", "O", "R", " ", "s", "t", "a", "t", "u", "s", ":", " ",
      "5", "0", "3", " ", "r", "e", "s", "p", "o", "n", "s", "e", "_", "t",
      "i", "m", "e", ":", " ", "2", "0", "0", "0", "m", "s">>

\* 'failed to start'
LineMarkerOnly ==
    <<"f", "a", "i", "l", "e", "d", " ", "t", "o", " ", "s", "t", "a", "r",
      "t">>

\* 'status: 500'
LineStatusOnly ==
    <<"s", "t", "a", "t", "u", "s", ":", " ", "5", "0", "0">>

\* 'Exceptional status: 404'
LineExceptional ==
    <<"E", "x", "c", "e", "p", "t", "i", "o", "n", "a", "l", " ", "s", "t",
      "a", "t", "u", "s", ":", " ", "4", "0", "4">>

\* 'response_time: 1000ms'
LineBoundary ==
    <<"r", "e", "s", "p", "o", "n", "s", "e", "_", "t", "i", "m", "e", ":",
      " ", "1", "0", "0", "0", "m", "s">>

\* 'response_time:\t1000.5ms status 20'
LineFraction ==
    <<"r", "e", "s", "p", "o", "n", "s", "e", "_", "t", "i", "m", "e", ":",
      "\t", "1", "0", "0", "0", ".", "5", "m", "s", " ", "s", "t", "a",
      "t", "u", "s", " ", "2", "0">>

\* 'Status: 503 response_time: 9 ms'
LineNoMatch ==
    <<"S", "t", "a", "t", "u", "s", ":", " ", "5", "0", "3", " ", "r", "e",
      "s", "p", "o", "n", "s", "e", "_", "t", "i", "m", "e", ":", " ", "9",
      " ", "m", "s">>

\* 'status: 200 status: 503'
LineTwoStatus ==
    <<"s", "t", "a", "t", "u", "s", ":", " ", "2", "0", "0", " ", "s", "t",
      "a", "t", "u", "s", ":", " ", "5", "0", "3">>

\* '  \t'
LineBlank ==
    <<" ", " ", "\t">>

NL == <<"\n">>

\* the text blobs a caller may hand to parse_logs
SampleBlobs ==
    { LineOk \o NL \o LineError503,
      LineMarkerOnly \o NL \o LineBlank \o NL \o LineStatusOnly \o NL
          \o LineTwoStatus \o NL,
      LineError503 \o NL \o LineFraction \o NL \o LineExceptional \o NL
          \o LineNoMatch \o NL \o LineBoundary }

(***************************************************************************)
(* LogMonitor.__init__ and parse_logs                                      *)
(***************************************************************************)
\* self.metrics as __init__ leaves it
InitialMetrics ==
    [error_count |-> 0, slow_responses |-> 0, total_requests |-> 0,
     avg_response_time |-> RatZero]

SlowMs == 1000

ServerErrorStatus == 500

\* faulty variant: the increment of total_requests is left out
CountRequest_Skipped(m) == m

\* self.metrics['total_requests'] += 1
CountRequest(m) == [m EXCEPT !.total_requests = @ + 1]

\* if re.search(error_pattern, line, re.IGNORECASE): error_count += 1
CountErrorMarker(m, line) ==
    IF SearchError(line) THEN [m EXCEPT !.error_count = @ + 1] ELSE m

\* if time_match and response_time > 1000: slow_responses += 1
CountSlowResponse(m, line) ==
    LET time_match == SearchResponseTime(line)
    IN  IF time_match # NoMatch /\ RatGtInt(ParseFloat(time_match), SlowMs)
        THEN [m EXCEPT !.slow_responses = @ + 1]
        ELSE m

\* if time_match: response_times.append(float(time_match.group(1)))
CollectResponseTime(rts, line) ==
    LET time_match == SearchResponseTime(line)
    IN  IF time_match # NoMatch THEN Append(rts, ParseFloat(time_match)) ELSE rts

\* faulty variant: the status test is an "elif" of the error-marker test
CountServerError_Elif(m, line) ==
    LET status_match == SearchStatus(line)
    IN  IF /\ ~SearchError(line)
           /\ status_match # NoMatch
           /\ ParseInt(status_match) >= ServerErrorStatus
        THEN [m EXCEPT !.error_count = @ + 1]
        ELSE m

\* if status_match and int(status_match.group(1)) >= 500: error_count += 1
CountServerError(m, line) ==
    LET status_match == SearchStatus(line)
    IN  IF status_match # NoMatch /\ ParseInt(status_match) >= ServerErrorStatus
        THEN [m EXCEPT !.error_count = @ + 1]
        ELSE m

\* the body of "for line in lines", on the pair of self.metrics and
\* response_times
ProcessLine(st, line) ==
    IF Strip(line) = <<>>
    THEN st
    ELSE [metrics |->
              CountServerError(
                  CountSlowResponse(
                      CountErrorMarker(CountRequest(st.metrics), line), line),
                  line),
          response_times |-> CollectResponseTime(st.response_times, line)]

\* sum(response_times)
RECURSIVE Sum(_)
Sum(rts) ==
    IF rts = <<>> THEN RatZero
    ELSE RatAdd(Sum(SubSeq(rts, 1, Len(rts) - 1)), rts[Len(rts)])

\* if response_times: avg_response_time = sum(response_times) / len(...)
FinishParse(m, rts) ==
    IF rts # <<>>
    THEN [m EXCEPT !.avg_response_time = RatDivInt(Sum(rts), Len(rts))]
    ELSE m

RECURSIVE FoldLines(_, _)
FoldLines(st, ls) ==
    IF ls = <<>> THEN st ELSE FoldLines(ProcessLine(st, Head(ls)), Tail(ls))

RECURSIVE FoldBlobs(_, _)
FoldBlobs(st, blobs) ==
    IF blobs = <<>> THEN st
    ELSE FoldBlobs(FoldLines(st, Split(Head(blobs), "\n")), Tail(blobs))

\* parse_logs as one call: the value of self.metrics when it returns
parse_logs(m, contents) ==
    LET st == FoldBlobs([metrics |-> m, response_times |-> <<>>], contents)
    IN  FinishParse(st.metrics, st.response_times)

(***************************************************************************)
(* Bounds                                                                  *)
(***************************************************************************)
MaxBlobs == 2

MaxCalls == 2

SeqUpTo(S, n) == UNION {[1..k -> S] : k \in 0..n}

(***************************************************************************)
(* The LogMonitor object under its callers: parse_logs step by step        *)
(***************************************************************************)
EmptyBucket == [listing |-> TRUE, objects |-> <<>>]

Answering == [client |-> TRUE, describe |-> TRUE, write |-> TRUE]

NoFleet == [found |-> FALSE, DesiredCapacity |-> 0, MinSize |-> 0, MaxSize |-> 0]

EmptyDict == [i \in {} |-> 0]

Init ==
    /\ metrics = InitialMetrics
    /\ pc = "idle"
    /\ log_contents = <<>>
    /\ bi = 0
    /\ lines = <<>>
    /\ response_times = <<>>
    /\ ncalls = 0
    /\ instance_ids = {}
    /\ ec2_metrics = EmptyDict
    /\ scaling_decision = None
    /\ reasons = <<>>
    /\ asg = NoFleet
    /\ fleet = NoFleet
    /\ new_capacity = <<>>
    /\ writes = <<>>
    /\ escaped = FALSE
    /\ bucket = EmptyBucket
    /\ cloudwatch = EmptyDict
    /\ autoscaling = Answering

\* a caller enters parse_logs(log_contents)
ParseLogsCall ==
    /\ pc = "idle"
    /\ ncalls < MaxCalls
    /\ \E contents \in SeqUpTo(SampleBlobs, MaxBlobs) : log_contents' = contents
    /\ pc' = "parse_logs"
    /\ bi' = 0
    /\ lines' = <<>>
    /\ response_times' = <<>>
    /\ scaling_decision' = None
    /\ reasons' = <<>>
    /\ ec2_metrics' = EmptyDict
    /\ UNCHANGED <<metrics, ncalls, instance_ids, asg, fleet, new_capacity,
                   writes, escaped, services>>

\* for log_content in log_contents: lines = log_content.split('\n')
NextBlob ==
    /\ pc = "parse_logs"
    /\ lines = <<>>
    /\ bi < Len(log_contents)
    /\ bi' = bi + 1
    /\ lines' = Split(log_contents[bi + 1], "\n")
    /\ UNCHANGED <<metrics, pc, log_contents, response_times, ncalls,
                   instance_ids, ec2_metrics, scaling_decision, reasons, asg,
                   fleet, new_capacity, writes, escaped, services>>

\* one pass of "for line in lines"
NextLine ==
    /\ pc = "parse_logs"
    /\ lines # <<>>
    /\ LET st == ProcessLine([metrics |-> metrics,
                              response_times |-> response_times], Head(lines))
       IN  /\ metrics' = st.metrics
           /\ response_times' = st.response_times
    /\ lines' = Tail(lines)
    /\ UNCHANGED <<pc, log_contents, bi, ncalls, instance_ids, ec2_metrics,
                   scaling_decision, reasons, asg, fleet, new_capacity, writes,
                   escaped, services>>

\* the loops are over: the average is stored, parse_logs returns and its
\* argument and locals are gone
ParseLogsReturn ==
    /\ pc = "parse_logs"
    /\ lines = <<>>
    /\ bi = Len(log_contents)
    /\ metrics' = FinishParse(metrics, response_times)
    /\ pc' = "idle"
    /\ ncalls' = ncalls + 1
    /\ log_contents' = <<>>
    /\ bi' = 0
    /\ response_times' = <<>>
    /\ UNCHANGED <<lines, instance_ids,
                   ec2_metrics, scaling_decision, reasons, asg, fleet,
                   new_capacity, writes, escaped, services>>

Next == ParseLogsCall \/ NextBlob \/ NextLine \/ ParseLogsReturn

Spec == Init /\ [][Next]_vars

(***************************************************************************)
(* check_scaling_conditions                                                *)
(***************************************************************************)
CPU_HIGH_THRESHOLD == 70

CPU_LOW_THRESHOLD == 20

ERROR_RATE_THRESHOLD == 5

SLOW_RESPONSE_THRESHOLD == 10

\* a < k for a rational a and an integer k
RatLtInt(a, k) == a[1] < k * a[2]

\* sum(m['cpu_utilization'] for m in ec2_metrics.values())
RECURSIVE SumCpu(_)
SumCpu(d) ==
    IF DOMAIN d = {} THEN 0
    ELSE LET i == CHOOSE x \in DOMAIN d : TRUE
         IN  d[i] + SumCpu([x \in DOMAIN d \ {i} |-> d[x]])

\* avg_cpu = sum(...) / len(ec2_metrics)
AvgCpu(d) == Rat(SumCpu(d), Cardinality(DOMAIN d))

\* if ec2_metrics: ... if avg_cpu > CPU_HIGH_THRESHOLD
CpuHigh(d) == DOMAIN d # {} /\ RatGtInt(AvgCpu(d), CPU_HIGH_THRESHOLD)

\* elif avg_cpu < CPU_LOW_THRESHOLD
CpuLow(d) ==
    /\ DOMAIN d # {}
    /\ ~RatGtInt(AvgCpu(d), CPU_HIGH_THRESHOLD)
    /\ RatLtInt(AvgCpu(d), CPU_LOW_THRESHOLD)

\* faulty variant: the error rate is compared with >= instead of >
ErrorRateHigh_Inclusive(m) ==
    /\ m.total_requests > 0
    /\ ~RatLtInt(Rat(m.error_count * 100, m.total_requests), ERROR_RATE_THRESHOLD)

\* (error_count / total_requests) * 100 > ERROR_RATE_THRESHOLD
ErrorRateHigh(m) ==
    /\ m.total_requests > 0
    /\ RatGtInt(Rat(m.error_count * 100, m.total_requests), ERROR_RATE_THRESHOLD)

\* (slow_responses / total_requests) * 100 > SLOW_RESPONSE_THRESHOLD
SlowRateHigh(m) ==
    /\ m.total_requests > 0
    /\ RatGtInt(Rat(m.slow_responses * 100, m.total_requests),
                SLOW_RESPONSE_THRESHOLD)

\* faulty variant: the slow-rate rule is an "elif" of the error-rate rule
CheckReasons_ElifSlow(m, d) ==
    (IF CpuHigh(d) THEN <<"High CPU utilization">>
     ELSE IF CpuLow(d) THEN <<"Low CPU utilization">>
     ELSE <<>>)
    \o (IF ErrorRateHigh(m) THEN <<"High error rate">>
        ELSE IF SlowRateHigh(m) THEN <<"High slow response rate">>
        ELSE <<>>)

\* the list reasons when the method returns
CheckReasons(m, d) ==
    (IF CpuHigh(d) THEN <<"High CPU utilization">>
     ELSE IF CpuLow(d) THEN <<"Low CPU utilization">>
     ELSE <<>>)
    \o (IF ErrorRateHigh(m) THEN <<"High error rate">> ELSE <<>>)
    \o (IF SlowRateHigh(m) THEN <<"High slow response rate">> ELSE <<>>)

\* the flags scale_up and scale_down, and the value returned
CheckDecision(m, d) ==
    LET scale_up == CpuHigh(d) \/ ErrorRateHigh(m) \/ SlowRateHigh(m)
        scale_down == CpuLow(d)
    IN  IF scale_up THEN "scale_up"
        ELSE IF scale_down THEN "scale_down"
        ELSE "maintain"

(***************************************************************************)
(* trigger_auto_scaling                                                    *)
(***************************************************************************)
Min(a, b) == IF a < b THEN a ELSE b

Max(a, b) == IF a > b THEN a ELSE b

\* faulty variant: the final else branch does not return
WillScale_Unbounded(action, f) == action \in {"scale_up", "scale_down", "maintain"}

\* the branch that leads to set_desired_capacity is taken
WillScale(action, f) ==
    \/ action = "scale_up" /\ f.DesiredCapacity < f.MaxSize
    \/ action = "scale_down" /\ f.DesiredCapacity > f.MinSize

\* faulty variant: the fleet is scaled by two instances at a time
NewCapacity_DoubleStep(action, f) ==
    IF action = "scale_up" /\ f.DesiredCapacity < f.MaxSize
    THEN Min(f.DesiredCapacity + 2, f.MaxSize)
    ELSE IF action = "scale_down" /\ f.DesiredCapacity > f.MinSize
    THEN Max(f.DesiredCapacity - 2, f.MinSize)
    ELSE f.DesiredCapacity

\* new_capacity after the if / elif / else
NewCapacity(action, f) ==
    IF action = "scale_up" /\ f.DesiredCapacity < f.MaxSize
    THEN Min(f.DesiredCapacity + 1, f.MaxSize)
    ELSE IF action = "scale_down" /\ f.DesiredCapacity > f.MinSize
    THEN Max(f.DesiredCapacity - 1, f.MinSize)
    ELSE f.DesiredCapacity

\* One call trigger_auto_scaling(action, group) against the group g the
\* service holds.  env says how the service answers: client (the client is
\* built), describe (describe_auto_scaling_groups answers) and write
\* (set_desired_capacity succeeds).  boto3.client('autoscaling') stands
\* before the try and is given no region, so its failure is not caught;
\* the two service calls stand inside the try.  The result gives the locals, the
\* set_desired_capacity calls made, the group afterwards and whether an
\* exception left the method.
trigger_auto_scaling(action, g, env) ==
    LET quiet == [fleet |-> NoFleet, new_capacity |-> <<>>, calls |-> <<>>,
                  asg |-> g, raised |-> FALSE]
        nc == NewCapacity(action, g)
    IN  IF ~env.client THEN [quiet EXCEPT !.raised = TRUE]
        ELSE IF ~env.describe THEN quiet
        ELSE IF ~g.found THEN quiet
        ELSE IF ~WillScale(action, g)
             THEN [quiet EXCEPT !.fleet = g, !.new_capacity = <<nc>>]
        ELSE [fleet |-> g,
              new_capacity |-> <<nc>>,
              calls |-> <<nc>>,
              asg |-> IF env.write THEN [g EXCEPT !.DesiredCapacity = nc] ELSE g,
              raised |-> FALSE]

Environments == [client : BOOLEAN, describe : BOOLEAN, write : BOOLEAN]

(***************************************************************************)
(* The evaluator and the actuator on drawn inputs                          *)
(***************************************************************************)
MaxRequests == 20

MaxErrors == 2

MaxSlow == 2

MaxFleet == 2

Instances == {"i-1", "i-2"}

\* CPU utilisation percentages the utilisation source may report
CpuSamples == {0, 19, 20, 21, 69, 70, 71}

\* the values self.metrics can hold after parse_logs calls
Snapshots ==
    {[error_count |-> e, slow_responses |-> s, total_requests |-> t,
      avg_response_time |-> RatZero] :
        <<t, e, s>> \in {x \in (0..MaxRequests) \X (0..MaxErrors) \X (0..MaxSlow) :
                             x[2] <= 2 * x[1] /\ x[3] <= x[1]}}

Ec2Dicts == UNION {[ids -> CpuSamples] : ids \in SUBSET Instances}

\* the groups the fleet service may hold: MinSize <= DesiredCapacity <= MaxSize
FleetStates ==
    {[found |-> TRUE, DesiredCapacity |-> x[2], MinSize |-> x[1], MaxSize |-> x[3]] :
        x \in {y \in (0..MaxFleet) \X (0..MaxFleet) \X (0..MaxFleet) :
                   y[1] <= y[2] /\ y[2] <= y[3]}}

Actions == {"scale_up", "scale_down", "maintain"}

EvalInit ==
    /\ \/ /\ pc = "evaluator"
          /\ metrics \in Snapshots
          /\ ec2_metrics \in Ec2Dicts
          /\ asg = NoFleet
       \/ /\ pc = "actuator"
          /\ metrics = InitialMetrics
          /\ ec2_metrics = EmptyDict
          /\ asg \in FleetStates \cup {NoFleet}
    /\ log_contents = <<>>
    /\ bi = 0
    /\ lines = <<>>
    /\ response_times = <<>>
    /\ ncalls = 0
    /\ instance_ids = {}
    /\ scaling_decision = None
    /\ reasons = <<>>
    /\ fleet = NoFleet
    /\ new_capacity = <<>>
    /\ writes = <<>>
    /\ escaped = FALSE
    /\ bucket = EmptyBucket
    /\ cloudwatch = EmptyDict
    /\ autoscaling = Answering

\* check_scaling_conditions(ec2_metrics) on the drawn snapshot
EvalCheck ==
    /\ pc = "evaluator"
    /\ scaling_decision' = CheckDecision(metrics, ec2_metrics)
    /\ reasons' = CheckReasons(metrics, ec2_metrics)
    /\ pc' = "evaluated"
    /\ UNCHANGED <<metrics, log_contents, bi, lines, response_times, ncalls,
                   instance_ids, ec2_metrics, asg, fleet, new_capacity, writes,
                   escaped, services>>

\* trigger_auto_scaling(action, group) on the drawn group
EvalTrigger ==
    /\ pc = "actuator"
    /\ \E action \in Actions, env \in Environments :
           LET r == trigger_auto_scaling(action, asg, env)
           IN  /\ scaling_decision' = action
               /\ fleet' = r.fleet
               /\ new_capacity' = r.new_capacity
               /\ writes' = writes \o r.calls
               /\ asg' = r.asg
               /\ escaped' = r.raised
               /\ autoscaling' = env
    /\ pc' = "actuated"
    /\ UNCHANGED <<metrics, log_contents, bi, lines, response_times, ncalls,
                   instance_ids, ec2_metrics, reasons, bucket, cloudwatch>>

EvalNext == EvalCheck \/ EvalTrigger

SpecEval == EvalInit /\ [][EvalNext]_vars

(***************************************************************************)
(* download_logs_from_s3 and get_ec2_metrics                               *)
(***************************************************************************)
KeepLast == 10

\* response['Contents'][-10:]
LastN(s, n) == IF Len(s) <= n THEN s ELSE SubSeq(s, Len(s) - n + 1, Len(s))

\* download_logs_from_s3 against the bucket b: b.listing says whether
\* list_objects_v2 answers, an object that is not readable makes get_object
\* or decode raise
download_logs_from_s3(b) ==
    IF ~b.listing THEN <<>>
    ELSE IF b.objects = <<>> THEN <<>>
    ELSE LET picked == LastN(b.objects, KeepLast)
         IN  IF \E k \in 1..Len(picked) : ~picked[k].readable
             THEN <<>>
             ELSE [k \in 1..Len(picked) |-> picked[k].body]

\* get_ec2_metrics(instance_ids) given CloudWatch's answer for each instance
get_ec2_metrics(ids, answers) ==
    [i \in {j \in ids : ~answers[j].raises} |->
        IF answers[i].Datapoints # <<>>
        THEN answers[i].Datapoints[Len(answers[i].Datapoints)]
        ELSE 0]

(***************************************************************************)
(* main(): one monitoring cycle                                            *)
(***************************************************************************)
MaxObjects == 1

BucketObjects ==
    {[readable |-> TRUE, body |-> b] : b \in SampleBlobs}
    \cup {[readable |-> FALSE, body |-> <<>>]}

Buckets ==
    {[listing |-> FALSE, objects |-> <<>>]}
    \cup {[listing |-> TRUE, objects |-> o] : o \in SeqUpTo(BucketObjects, MaxObjects)}

\* what get_metric_statistics may answer for one instance
CloudWatchAnswers ==
    {[raises |-> TRUE, Datapoints |-> <<>>]}
    \cup {[raises |-> FALSE, Datapoints |-> d] : d \in {<<>>, <<10>>, <<90>>, <<90, 10>>}}

\* The state after "monitor = LogMonitor(S3_BUCKET)".  INSTANCE_IDS is the
\* empty list in the source, a placeholder of the deployment: the model lets
\* it be any set of instances.
MainInit ==
    /\ metrics = InitialMetrics
    /\ pc = "main"
    /\ log_contents = <<>>
    /\ bi = 0
    /\ lines = <<>>
    /\ response_times = <<>>
    /\ ncalls = 0
    /\ instance_ids \in SUBSET Instances
    /\ ec2_metrics = EmptyDict
    /\ scaling_decision = None
    /\ reasons = <<>>
    /\ asg \in FleetStates \cup {NoFleet}
    /\ fleet = NoFleet
    /\ new_capacity = <<>>
    /\ writes = <<>>
    /\ escaped = FALSE
    /\ bucket \in Buckets
    /\ cloudwatch = EmptyDict
    /\ autoscaling = Answering

\* log_contents = monitor.download_logs_from_s3(LOG_PREFIX)
MainDownload ==
    /\ pc = "main"
    /\ log_contents' = download_logs_from_s3(bucket)
    /\ pc' = "downloaded"
    /\ UNCHANGED <<metrics, bi, lines, response_times, ncalls, instance_ids,
                   ec2_metrics, scaling_decision, reasons, asg, fleet,
                   new_capacity, writes, escaped, services>>

\* if log_contents: monitor.parse_logs(log_contents)
MainParse ==
    /\ pc = "downloaded"
    /\ IF log_contents # <<>>
       THEN /\ metrics' = parse_logs(metrics, log_contents)
            /\ ncalls' = ncalls + 1
       ELSE UNCHANGED <<metrics, ncalls>>
    /\ pc' = "parsed"
    /\ UNCHANGED <<log_contents, bi, lines, response_times, instance_ids,
                   ec2_metrics, scaling_decision, reasons, asg, fleet,
                   new_capacity, writes, escaped, services>>

\* ec2_metrics = monitor.get_ec2_metrics(INSTANCE_IDS) if INSTANCE_IDS else {}
MainGetMetrics ==
    /\ pc = "parsed"
    /\ IF instance_ids # {}
       THEN \E answers \in [instance_ids -> CloudWatchAnswers] :
                /\ cloudwatch' = answers
                /\ ec2_metrics' = get_ec2_metrics(instance_ids, answers)
       ELSE /\ cloudwatch' = cloudwatch
            /\ ec2_metrics' = EmptyDict
    /\ pc' = "fetched"
    /\ UNCHANGED <<metrics, log_contents, bi, lines, response_times, ncalls,
                   instance_ids, scaling_decision, reasons, asg, fleet,
                   new_capacity, writes, escaped, bucket, autoscaling>>

\* scaling_decision = monitor.check_scaling_conditions(ec2_metrics)
MainCheck ==
    /\ pc = "fetched"
    /\ scaling_decision' = CheckDecision(metrics, ec2_metrics)
    /\ reasons' = CheckReasons(metrics, ec2_metrics)
    /\ pc' = "checked"
    /\ UNCHANGED <<metrics, log_contents, bi, lines, response_times, ncalls,
                   instance_ids, ec2_metrics, asg, fleet, new_capacity, writes,
                   escaped, services>>

\* if scaling_decision in ['scale_up', 'scale_down']:
\*     monitor.trigger_auto_scaling(scaling_decision, AUTO_SCALING_GROUP)
MainTrigger ==
    /\ pc = "checked"
    /\ IF scaling_decision \in {"scale_up", "scale_down"}
       THEN \E env \in Environments :
                LET r == trigger_auto_scaling(scaling_decision, asg, env)
                IN  /\ fleet' = r.fleet
                    /\ new_capacity' = r.new_capacity
                    /\ writes' = writes \o r.calls
                    /\ asg' = r.asg
                    /\ escaped' = r.raised
                    /\ autoscaling' = env
                    /\ pc' = IF r.raised THEN "crashed" ELSE "done"
       ELSE /\ pc' = "done"
            /\ UNCHANGED <<fleet, new_capacity, writes, asg, escaped, autoscaling>>
    /\ UNCHANGED <<metrics, log_contents, bi, lines, response_times, ncalls,
                   instance_ids, ec2_metrics, scaling_decision, reasons, bucket,
                   cloudwatch>>

MainNext == MainDownload \/ MainParse \/ MainGetMetrics \/ MainCheck \/ MainTrigger

SpecMain == MainInit /\ [][MainNext]_vars

(***************************************************************************)
(* Properties                                                              *)
(***************************************************************************)
\* number of instances that delivered a sample, and the sum of the samples
NumSamples == Cardinality(DOMAIN ec2_metrics)

HighCpuFires == NumSamples > 0 /\ SumCpu(ec2_metrics) > 70 * NumSamples

LowCpuFires == NumSamples > 0 /\ SumCpu(ec2_metrics) < 20 * NumSamples

HighErrorRateFires ==
    metrics.total_requests > 0
    /\ 100 * metrics.error_count > 5 * metrics.total_requests

HighSlowRateFires ==
    metrics.total_requests > 0
    /\ 100 * metrics.slow_responses > 10 * metrics.total_requests

\* C1: for a group with MinSize <= DesiredCapacity <= MaxSize and any action,
\* the capacity trigger_auto_scaling computes lies in [MinSize, MaxSize]; it
\* is the current capacity (and then nothing is written), or current + 1 for
\* scale_up, or current - 1 for scale_down; every set_desired_capacity call
\* passes exactly that capacity.
C1_CapacityStep ==
    (pc = "actuated" /\ new_capacity # <<>>) =>
        LET nc == new_capacity[1]
            cur == fleet.DesiredCapacity
        IN  /\ fleet.MinSize <= nc
            /\ nc <= fleet.MaxSize
            /\ \/ nc = cur /\ writes = <<>>
               \/ scaling_decision = "scale_up" /\ nc = cur + 1
               \/ scaling_decision = "scale_down" /\ nc = cur - 1
            /\ \A k \in 1..Len(writes) : writes[k] = nc

\* a scale_up that reaches MaxSize and is written
C1_Witness ==
    /\ pc = "actuated"
    /\ scaling_decision = "scale_up"
    /\ writes = <<fleet.DesiredCapacity + 1>>
    /\ new_capacity = <<fleet.MaxSize>>

\* C2: check_scaling_conditions returns scale_up iff an "up" trigger fires
\* (mean CPU > 70, error rate > 5, slow rate > 10, the rates only when
\* total_requests > 0, the CPU rule only when there are samples), otherwise
\* scale_down iff the mean CPU is < 20, otherwise maintain; all comparisons
\* are strict.
C2_Decision ==
    pc = "evaluated" =>
        scaling_decision =
            IF HighCpuFires \/ HighErrorRateFires \/ HighSlowRateFires
            THEN "scale_up"
            ELSE IF LowCpuFires THEN "scale_down"
            ELSE "maintain"

\* the low-CPU trigger and an "up" trigger fire together, and "up" wins
C2_Witness ==
    /\ pc = "evaluated"
    /\ LowCpuFires
    /\ HighErrorRateFires
    /\ scaling_decision = "scale_up"

\* C3: every parse_logs call starts with all counters zero, so what a call
\* leaves in self.metrics is what its own blobs give from a fresh snapshot.
C3_FreshSnapshot ==
    /\ (pc = "parse_logs" /\ bi = 0 /\ lines = <<>>) => metrics = InitialMetrics
    /\ (pc = "parse_logs" /\ bi = Len(log_contents) /\ lines = <<>>) =>
           FinishParse(metrics, response_times)
               = parse_logs(InitialMetrics, log_contents)

\* the letters a and b are equal up to case
SameLetter(a, b) ==
    \/ a = b
    \/ \E j \in 1..Len(LowerCase) : {a, b} = {LowerCase[j], UpperCase[j]}

\* the line contains one of the tokens ERROR, FATAL, Exception, Failed,
\* whatever the case of its letters
HasErrorMarker(line) ==
    \E tok \in ErrorMarkers :
        \E i \in 1..(Len(line) - Len(tok) + 1) :
            \A k \in 1..Len(tok) : SameLetter(line[i + k - 1], tok[k])

\* the status code of the line (its first "status: ddd") is 500 or more
HasServerError(line) ==
    \E i \in 1..Len(line) :
        /\ StatusAt(line, i) # NoMatch
        /\ \A j \in 1..(i - 1) : StatusAt(line, j) = NoMatch
        /\ StatusAt(line, i)[1] \in {"5", "6", "7", "8", "9"}

\* C4: processing one line adds to error_count 1 for an error marker plus 1
\* for a status code >= 500: 2 when the line has both, 1 when it has one of
\* them, 0 when it has neither, whatever its response time.
C4_ErrorIncrements ==
    [][(pc = "parse_logs" /\ lines # <<>>) =>
           metrics'.error_count - metrics.error_count
               = (IF HasErrorMarker(Head(lines)) THEN 1 ELSE 0)
                 + (IF HasServerError(Head(lines)) THEN 1 ELSE 0)]_vars

\* the first line of a call had a marker and a 5xx status and counted twice
C4_Witness ==
    /\ pc = "parse_logs"
    /\ ncalls = 0
    /\ metrics.total_requests = 1
    /\ metrics.error_count = 2

\* the lines of the blobs that hold a character that is not whitespace
RECURSIVE NonBlankLines(_)
NonBlankLines(blobs) ==
    IF blobs = <<>> THEN 0
    ELSE LET ls == Split(Head(blobs), "\n")
         IN  Cardinality({k \in 1..Len(ls) :
                              \E c \in 1..Len(ls[k]) : ls[k][c] \notin Whitespace})
             + NonBlankLines(Tail(blobs))

\* C5: when parse_logs returns, total_requests is the number of non-blank
\* lines of the blobs it was given; a blank line changes no counter.
C5_TotalRequests ==
    [][/\ (pc = "parse_logs" /\ pc' = "idle") =>
              metrics'.total_requests = NonBlankLines(log_contents)
       /\ (pc = "parse_logs" /\ lines # <<>> /\ Strip(Head(lines)) = <<>>) =>
              metrics' = metrics]_vars

\* C6: when parse_logs returns, avg_response_time is 0 if the call extracted
\* no response time and the mean of the extracted response times otherwise.
C6_Average ==
    [][(pc = "parse_logs" /\ pc' = "idle") =>
           metrics'.avg_response_time =
               IF response_times = <<>>
               THEN RatZero
               ELSE RatDivInt(Sum(response_times), Len(response_times))]_vars

\* C7: in one cycle set_desired_capacity is called at most once, only after
\* the decision, only for scale_up below MaxSize or scale_down above MinSize,
\* and with a capacity that differs from the current one.
C7_SingleWrite ==
    /\ Len(writes) <= 1
    /\ writes # <<>> =>
           /\ pc = "done"
           /\ scaling_decision \in {"scale_up", "scale_down"}
           /\ scaling_decision = CheckDecision(metrics, ec2_metrics)
           /\ writes[1] # fleet.DesiredCapacity
           /\ ~(scaling_decision = "scale_up"
                    /\ fleet.DesiredCapacity >= fleet.MaxSize)
           /\ ~(scaling_decision = "scale_down"
                    /\ fleet.DesiredCapacity <= fleet.MinSize)

\* a cycle that decided scale_down and wrote the lower capacity
C7_Witness ==
    /\ pc = "done"
    /\ scaling_decision = "scale_down"
    /\ writes = <<fleet.DesiredCapacity - 1>>

\* C8: whatever the collaborators do, the cycle completes with one decision
\* and no exception leaves it; a failing or empty blob source gives the
\* all-zero snapshot; an instance whose fetch fails gives no sample; a
\* failing lookup, an unknown group or a failing client gives no write; the
\* actuator leaves the metrics and the decision as they were computed.
C8_CycleCompletes ==
    /\ ~escaped
    /\ pc # "crashed"
    /\ pc \in {"checked", "done"} => scaling_decision \in Actions
    /\ (pc \notin {"main", "downloaded"}
            /\ (~bucket.listing \/ bucket.objects = <<>>
                   \/ \E k \in 1..Len(bucket.objects) : ~bucket.objects[k].readable))
           => metrics = InitialMetrics
    /\ \A i \in DOMAIN cloudwatch : cloudwatch[i].raises => i \notin DOMAIN ec2_metrics
    /\ (~autoscaling.client \/ ~autoscaling.describe \/ ~asg.found) => writes = <<>>
    /\ pc \in {"done", "crashed"} =>
           scaling_decision = CheckDecision(metrics, ec2_metrics)

\* C9: the reasons are one entry per trigger that fired, in the order CPU,
\* error rate, slow rate; the CPU rule gives at most one; maintain has no
\* reason, scale_down exactly the low-CPU reason, and a scale_up from the
\* error rate alone without samples exactly the error-rate reason.
C9_Reasons ==
    pc = "evaluated" =>
        LET cpu == IF HighCpuFires THEN <<"High CPU utilization">>
                   ELSE IF LowCpuFires THEN <<"Low CPU utilization">>
                   ELSE <<>>
            err == IF HighErrorRateFires THEN <<"High error rate">> ELSE <<>>
            slow == IF HighSlowRateFires
                    THEN <<"High slow response rate">> ELSE <<>>
        IN  /\ reasons = cpu \o err \o slow
            /\ ~(HighCpuFires /\ LowCpuFires)
            /\ scaling_decision = "maintain" => reasons = <<>>
            /\ scaling_decision = "scale_down" => reasons = <<"Low CPU utilization">>
            /\ (NumSamples = 0 /\ HighErrorRateFires /\ ~HighSlowRateFires) =>
                   /\ scaling_decision = "scale_up"
                   /\ reasons = <<"High error rate">>

\* low CPU, high error rate and high slow rate in one evaluation
C9_Witness ==
    /\ pc = "evaluated"
    /\ scaling_decision = "scale_up"
    /\ reasons = <<"Low CPU utilization", "High error rate",
                   "High slow response rate">>

\* C10: slow_responses <= total_requests and error_count <= 2 * total_requests
\* in every state, and no step lowers a counter.
C10_CounterBounds ==
    /\ [](/\ metrics.slow_responses <= metrics.total_requests
          /\ metrics.error_count <= 2 * metrics.total_requests)
    /\ [][/\ metrics'.total_requests >= metrics.total_requests
          /\ metrics'.error_count >= metrics.error_count
          /\ metrics'.slow_responses >= metrics.slow_responses]_vars

\* in the middle of parse_logs the error rate stands at 200%
C10_Witness ==
    /\ pc = "parse_logs"
    /\ lines # <<>>
    /\ metrics.total_requests > 0
    /\ metrics.error_count = 2 * metrics.total_requests

====
